---- MODULE Spec2Model ----
(***************************************************************************)
(* Voice-Flow: streaming speech-to-text dictation backend.                 *)
(*                                                                         *)
(* Texts are sequences of tokens.  A token is either the blank SP or a     *)
(* word atom (a maximal run of non-blank characters of the Python string). *)
(* In every text two word atoms are separated by at least one blank, so    *)
(* str.split() is the removal of the blanks and " ".join() is the          *)
(* insertion of one blank between consecutive words.                       *)
(*                                                                         *)
(* Audio buffers are sequences of sample numbers: the n-th sample appended *)
(* since the last reset is the number n.                                   *)
(***************************************************************************)
EXTENDS Integers, Sequences, FiniteSets, TLC

\* ------------------------------------------------------------------ bounds
SamplesPerSecond == 1      \* model scale of the 16 kHz sample rate
MaxWords == 2              \* longest ASR transcription of one pass, in words
MaxPasses == 4             \* transcribe_current calls in one behaviour
MaxRecSeconds == 2         \* audio appended between two resets, reconciler runs
MaxAudioSeconds == 270     \* audio appended between two resets, accumulator runs
MaxMergeWords == 3         \* longest argument of merge_text, in words
MaxChunkedSeconds == 130   \* longest audio handed to the chunkers, in seconds
MaxSpoken == 4             \* longest spoken word sequence of a chunked recording
MaxWindows == 3            \* windows of a chunked recording
MaxSessionWords == 1       \* longest ASR transcription inside a session, in words
MaxOversize == 1           \* rejected oversize frames of a session
MaxSessionPasses == 2      \* reconciliation passes of a session
MaxPolishWords == 2        \* longest text entering the polish stage, in words
MaxDictOps == 3            \* settings and dictionary requests
MaxEngineCalls == 4        \* inference calls of one process
MaxClock == 330            \* latest time of an is_allowed call, in seconds
MaxAccepted == 4           \* accepted is_allowed calls

\* --------------------------------------------------------------- text model
SP == " "
Vocab == {"a", "A", "b"}

lower(w) == CASE w = "A" -> "a"
              [] w = "B" -> "b"
              [] OTHER -> w

LowerAll(ws) == [i \in 1..Len(ws) |-> lower(ws[i])]

RECURSIVE lstrip(_)
lstrip(t) == IF t = <<>> THEN <<>>
             ELSE IF Head(t) = SP THEN lstrip(Tail(t)) ELSE t

RECURSIVE rstrip(_)
rstrip(t) == IF t = <<>> THEN <<>>
             ELSE IF t[Len(t)] = SP THEN rstrip(SubSeq(t, 1, Len(t) - 1)) ELSE t

strip(t) == rstrip(lstrip(t))

IsBlank(tok) == tok = SP
IsWord(tok) == tok # SP

split(t) == SelectSeq(t, IsWord)

RECURSIVE join(_)
join(ws) == IF ws = <<>> THEN <<>>
            ELSE IF Len(ws) = 1 THEN <<ws[1]>>
            ELSE <<ws[1], SP>> \o join(Tail(ws))

\* Python slices on word lists
DropWords(ws, k) == SubSeq(ws, k + 1, Len(ws))
TakeWords(ws, k) == SubSeq(ws, 1, k)
LastWords(ws, k) == SubSeq(ws, Len(ws) - k + 1, Len(ws))

RECURSIVE Blanks(_)
Blanks(n) == IF n = 0 THEN <<>> ELSE <<SP>> \o Blanks(n - 1)

RECURSIVE JoinGap(_, _)
JoinGap(ws, g) == IF ws = <<>> THEN <<>>
                  ELSE IF Len(ws) = 1 THEN <<ws[1]>>
                  ELSE <<ws[1]>> \o Blanks(g) \o JoinGap(Tail(ws), g)

\* a text with `d[1]` leading blanks, `d[2]` blanks between words, `d[3]` trailing
Render(ws, d) == Blanks(d[1]) \o JoinGap(ws, d[2]) \o Blanks(d[3])

WordSeqs(n) == UNION {[1..k -> Vocab] : k \in 0..n}
Plain == <<0, 1, 0>>
Padded == <<1, 2, 1>>
Decor == {Plain, Padded}
Texts(n) == {Render(ws, d) : ws \in WordSeqs(n), d \in Decor}

\* ASR hypotheses: the capitalised variant occurs in sentence-initial position
Hypotheses(n) == {ws \in WordSeqs(n) : \A i \in 2..Len(ws) : ws[i] # "A"}

\* --------------------------------------------------- StreamingTranscriber
MAX_BUFFER_SAMPLES == SamplesPerSecond * 60 * 2
sample_rate == SamplesPerSecond
MinWordCounts == {1, 2, 4}

VARIABLES accumulated_audio, last_transcription, confirmed_text,
          confirmed_word_count, word_counts, min_word_count,
          ret_partial, ret_confirmed,
          op, outcome, passes, total_appended, observed

recVars == <<accumulated_audio, last_transcription, confirmed_text,
             confirmed_word_count, word_counts, min_word_count,
             ret_partial, ret_confirmed,
             op, outcome, passes, total_appended, observed>>

\* merge_text call: arguments, result, position
VARIABLES m_existing, m_new_chunk, m_overlap_words, m_result, m_pc
mergeVars == <<m_existing, m_new_chunk, m_overlap_words, m_result, m_pc>>

\* chunking loop: which chunker, len(audio), start_idx, chunks as <<start, end>>
VARIABLES ch_fn, ch_len, ch_start_idx, ch_chunks, ch_pc
chunkVars == <<ch_fn, ch_len, ch_start_idx, ch_chunks, ch_pc>>

\* chunked transcription loop: spoken words, windows as <<first, last>> word
\* numbers, loop index, merged_text
VARIABLES f_spoken, f_windows, f_i, f_merged_text, f_pc, f_fn, f_engine
foldVars == <<f_spoken, f_windows, f_i, f_merged_text, f_pc, f_fn, f_engine>>

\* one WebSocket session of websocket_transcribe in one of the three backends
VARIABLES variant, model_loaded, s_pc, auth_result, close_code, sent, saved,
          mode, final_text, stop_handled, transcribe_task, threads, task_result,
          last_partial, last_confirmed, active_sessions
sessVars == <<variant, model_loaded, s_pc, auth_result, close_code, sent, saved,
              mode, final_text, stop_handled, transcribe_task, threads, task_result,
              last_partial, last_confirmed, active_sessions>>

\* RateLimiter
VARIABLES requests_per_minute, cleanup_interval, requests, last_cleanup,
          rl_now, rl_client, rl_allowed, rl_log
rateVars == <<requests_per_minute, cleanup_interval, requests, last_cleanup,
              rl_now, rl_client, rl_allowed, rl_log>>

\* the AI polish stage of the text pipeline
VARIABLES p_text, p_response, p_result, p_polished_text, p_pc
polishVars == <<p_text, p_response, p_result, p_polished_text, p_pc>>

\* the settings row with the personal dictionary
VARIABLES personal_dictionary, d_status, d_ops
dictVars == <<personal_dictionary, d_status, d_ops>>

\* the shared ASR model of one process with several sessions
VARIABLES e_variant, e_state, e_pass, e_final, e_http, e_loop, e_calls
engVars == <<e_variant, e_state, e_pass, e_final, e_http, e_loop, e_calls>>

auxVars == <<rateVars, polishVars, dictVars, engVars>>

vars == <<recVars, mergeVars, chunkVars, foldVars, sessVars, auxVars>>

Min2(a, b) == IF a < b THEN a ELSE b

\* dict.get(key, 0)
Get(d, k) == IF k \in DOMAIN d THEN d[k] ELSE 0
\* d[key] = v
Put(d, k, v) == [x \in (DOMAIN d) \cup {k} |-> IF x = k THEN v ELSE d[x]]
EmptyDict == [x \in {} |-> 0]

\* the model output of one ASR call: the returned text, possibly in the
\* list rendering ["..."] that _clean_text unwraps, or an error
AsrOutputs(n) == {[kind |-> "text", wrap |-> "none", body |-> Render(ws, Plain)] :
                      ws \in Hypotheses(n)}
                 \cup {[kind |-> "text", wrap |-> "list", body |-> Render(ws, Padded)] :
                      ws \in Hypotheses(n)}
                 \cup {[kind |-> "error", wrap |-> "none", body |-> <<>>],
                       [kind |-> "nothing", wrap |-> "none", body |-> <<>>]}

_clean_text(out) == IF out.wrap = "list" THEN out.body ELSE strip(out.body)

InitTranscriber ==
    /\ accumulated_audio = <<>>
    /\ last_transcription = <<>>
    /\ confirmed_text = <<>>
    /\ confirmed_word_count = 0
    /\ word_counts = EmptyDict
    /\ min_word_count \in MinWordCounts
    /\ ret_partial = <<>>
    /\ ret_confirmed = <<>>
    /\ op = "init"
    /\ outcome = "none"
    /\ passes = 0
    /\ total_appended = 0
    /\ observed = EmptyDict

\* reset forgets to clear the counters and the boundary
reset_KeepCounters ==
    /\ accumulated_audio' = <<>>
    /\ last_transcription' = <<>>
    /\ confirmed_text' = <<>>
    /\ op' = "reset"
    /\ outcome' = "none"
    /\ total_appended' = 0
    /\ observed' = EmptyDict
    /\ UNCHANGED <<confirmed_word_count, word_counts, min_word_count, ret_partial,
                   ret_confirmed, passes>>

reset ==
    /\ accumulated_audio' = <<>>
    /\ last_transcription' = <<>>
    /\ confirmed_text' = <<>>
    /\ confirmed_word_count' = 0
    /\ word_counts' = EmptyDict
    /\ op' = "reset"
    /\ outcome' = "none"
    /\ total_appended' = 0
    /\ observed' = EmptyDict
    /\ UNCHANGED <<min_word_count, ret_partial, ret_confirmed, passes>>

\* the window keeps the oldest samples instead of the newest
SlidingWindow_KeepOldest(audio) ==
    IF Len(audio) > MAX_BUFFER_SAMPLES
    THEN SubSeq(audio, 1, MAX_BUFFER_SAMPLES)
    ELSE audio

\* audio[-MAX_BUFFER_SAMPLES:] after the concatenation
SlidingWindow(audio) ==
    IF Len(audio) > MAX_BUFFER_SAMPLES
    THEN SubSeq(audio, Len(audio) - MAX_BUFFER_SAMPLES + 1, Len(audio))
    ELSE audio

NewSamples(n) == [i \in 1..n |-> total_appended + i]

add_audio_chunk(n) ==
    /\ accumulated_audio' = SlidingWindow(accumulated_audio \o NewSamples(n))
    /\ total_appended' = total_appended + n
    /\ op' = "add_audio_chunk"
    /\ outcome' = "none"
    /\ UNCHANGED <<last_transcription, confirmed_text, confirmed_word_count,
                   word_counts, min_word_count, ret_partial, ret_confirmed,
                   passes, observed>>

\* for i, word in enumerate(current_words): if i >= confirmed_word_count: ...
RECURSIVE TrackWords(_, _, _, _)
TrackWords(wc, words, i, cwc) ==
    IF i >= Len(words) THEN wc
    ELSE LET key == <<i, lower(words[i + 1])>>
             wc2 == IF i >= cwc THEN Put(wc, key, Get(wc, key) + 1) ELSE wc
         IN TrackWords(wc2, words, i + 1, cwc)

\* the walk skips an unstable word and goes on instead of breaking
RECURSIVE NewConfirmed_Bridge(_, _, _, _)
NewConfirmed_Bridge(wc, words, i, minc) ==
    IF i >= Len(words) THEN <<>>
    ELSE IF Get(wc, <<i, lower(words[i + 1])>>) >= minc
         THEN <<words[i + 1]>> \o NewConfirmed_Bridge(wc, words, i + 1, minc)
         ELSE NewConfirmed_Bridge(wc, words, i + 1, minc)

\* the threshold test written with > instead of >=
RECURSIVE NewConfirmed_Strict(_, _, _, _)
NewConfirmed_Strict(wc, words, i, minc) ==
    IF i >= Len(words) THEN <<>>
    ELSE IF Get(wc, <<i, lower(words[i + 1])>>) > minc
         THEN <<words[i + 1]>> \o NewConfirmed_Strict(wc, words, i + 1, minc)
         ELSE <<>>

\* for i in range(confirmed_word_count, len(current_words)): ... else: break
RECURSIVE NewConfirmed(_, _, _, _)
NewConfirmed(wc, words, i, minc) ==
    IF i >= Len(words) THEN <<>>
    ELSE IF Get(wc, <<i, lower(words[i + 1])>>) >= minc
         THEN <<words[i + 1]>> \o NewConfirmed(wc, words, i + 1, minc)
         ELSE <<>>

\* the confirmed text is rebuilt from the new words instead of extended
AppendConfirmed_Overwrite(ct, new_confirmed) ==
    IF new_confirmed = <<>> THEN ct ELSE join(new_confirmed)

AppendConfirmed(ct, new_confirmed) ==
    IF new_confirmed = <<>> THEN ct
    ELSE IF ct # <<>> THEN ct \o <<SP>> \o join(new_confirmed)
    ELSE join(new_confirmed)

\* the partial text repeats the whole transcription
PartialText_Whole(words, cwc) == join(words)

PartialText(words, cwc) ==
    IF cwc < Len(words) THEN join(DropWords(words, cwc)) ELSE <<>>

RECURSIVE ObserveAll(_, _, _)
ObserveAll(obs, words, i) ==
    IF i >= Len(words) THEN obs
    ELSE LET key == <<i, lower(words[i + 1])>>
         IN ObserveAll(Put(obs, key, Get(obs, key) + 1), words, i + 1)

PassReturns(partial, confirmed, kind) ==
    /\ ret_partial' = partial
    /\ ret_confirmed' = confirmed
    /\ outcome' = kind
    /\ op' = "transcribe_current"
    /\ passes' = passes + 1
    /\ UNCHANGED <<accumulated_audio, min_word_count, total_appended>>

transcribe_current(out) ==
    /\ passes < MaxPasses
    /\ IF Len(accumulated_audio) * 10 < sample_rate * 4
       THEN /\ PassReturns(<<>>, confirmed_text, "short")
            /\ UNCHANGED <<last_transcription, confirmed_text,
                           confirmed_word_count, word_counts, observed>>
       ELSE IF out.kind # "text"
       THEN /\ PassReturns(<<>>, confirmed_text, out.kind)
            /\ UNCHANGED <<last_transcription, confirmed_text,
                           confirmed_word_count, word_counts, observed>>
       ELSE LET text == _clean_text(out)
                current_words == split(text)
                wc == TrackWords(word_counts, current_words, 0, confirmed_word_count)
                new_confirmed == NewConfirmed(wc, current_words,
                                              confirmed_word_count, min_word_count)
                cwc == confirmed_word_count + Len(new_confirmed)
            IN IF strip(text) = <<>>
               THEN /\ PassReturns(<<>>, confirmed_text, "empty")
                    /\ UNCHANGED <<last_transcription, confirmed_text,
                                   confirmed_word_count, word_counts, observed>>
               ELSE /\ last_transcription' = text
                    /\ word_counts' = wc
                    /\ confirmed_text' = AppendConfirmed(confirmed_text, new_confirmed)
                    /\ confirmed_word_count' = cwc
                    /\ observed' = ObserveAll(observed, current_words, 0)
                    /\ PassReturns(PartialText(current_words, cwc),
                                   AppendConfirmed(confirmed_text, new_confirmed), "ok")

\* ------------------------------------------------------------ merge_text
\* the loop keeps the first matching overlap instead of the last
RECURSIVE OverlapLoop_First(_, _, _, _, _)
OverlapLoop_First(existing_words, new_words, overlap_len, stop, best_overlap) ==
    IF overlap_len >= stop THEN best_overlap
    ELSE LET existing_tail == LastWords(existing_words, overlap_len)
             new_head == TakeWords(new_words, overlap_len)
             best == IF LowerAll(existing_tail) = LowerAll(new_head) /\ best_overlap = 0
                     THEN overlap_len ELSE best_overlap
         IN OverlapLoop_First(existing_words, new_words, overlap_len + 1, stop, best)

\* for overlap_len in range(1, stop): ... best_overlap = overlap_len
RECURSIVE OverlapLoop(_, _, _, _, _)
OverlapLoop(existing_words, new_words, overlap_len, stop, best_overlap) ==
    IF overlap_len >= stop THEN best_overlap
    ELSE LET existing_tail == LastWords(existing_words, overlap_len)
             new_head == TakeWords(new_words, overlap_len)
             best == IF LowerAll(existing_tail) = LowerAll(new_head)
                     THEN overlap_len ELSE best_overlap
         IN OverlapLoop(existing_words, new_words, overlap_len + 1, stop, best)

Min3(a, b, c) == IF a <= b /\ a <= c THEN a ELSE IF b <= c THEN b ELSE c

\* the no-overlap branch appends the new words after the first one only
MergeNoOverlap_DropWord(existing, new_chunk) ==
    strip(existing \o <<SP>> \o join(DropWords(split(new_chunk), 1)))

\* merged = existing + " " + new_chunk
MergeNoOverlap(existing, new_chunk) == strip(existing \o <<SP>> \o new_chunk)

merge_text(existing0, new_chunk0, overlap_words) ==
    IF existing0 = <<>> THEN strip(new_chunk0)
    ELSE IF new_chunk0 = <<>> THEN strip(existing0)
    ELSE LET existing == strip(existing0)
             new_chunk == strip(new_chunk0)
             existing_words == split(existing)
             new_words == split(new_chunk)
         IN IF existing_words = <<>> \/ new_words = <<>>
            THEN strip(existing \o <<SP>> \o new_chunk)
            ELSE LET stop == Min3(overlap_words + 1, Len(existing_words) + 1,
                                  Len(new_words) + 1)
                     best_overlap == OverlapLoop(existing_words, new_words, 1, stop, 0)
                 IN IF best_overlap > 0
                    THEN strip(existing \o <<SP>> \o join(DropWords(new_words, best_overlap)))
                    ELSE MergeNoOverlap(existing, new_chunk)

OverlapWordsArgs == {2, 3, 5}

IdleMerge ==
    /\ m_existing = <<>> /\ m_new_chunk = <<>> /\ m_overlap_words = 3
    /\ m_result = <<>> /\ m_pc = "idle"

InitMerge ==
    /\ m_existing \in Texts(MaxMergeWords)
    /\ m_new_chunk \in Texts(MaxMergeWords)
    /\ m_overlap_words \in OverlapWordsArgs
    /\ m_result = <<>>
    /\ m_pc = "call"

MergeCall ==
    /\ m_pc = "call"
    /\ m_result' = merge_text(m_existing, m_new_chunk, m_overlap_words)
    /\ m_pc' = "return"
    /\ UNCHANGED <<m_existing, m_new_chunk, m_overlap_words>>

\* -------------------------------------- _chunk_long_audio and _chunk_audio
MAX_CHUNK_DURATION == 30
\* NeMo Parakeet has a hard limit of 40 seconds per inference
ENGINE_MAX_SECONDS == 40
CHUNK_OVERLAP == 2
chunk_samples == MAX_CHUNK_DURATION * sample_rate
overlap_samples == CHUNK_OVERLAP * sample_rate

\* the stride skips the overlap instead of repeating it
stride_samples_Gap == chunk_samples + overlap_samples

stride_samples == chunk_samples - overlap_samples

IdleChunk ==
    /\ ch_fn = "none" /\ ch_len = 0 /\ ch_start_idx = 0
    /\ ch_chunks = <<>> /\ ch_pc = "idle"

\* get_final_transcription calls _chunk_long_audio for audio longer than
\* MAX_CHUNK_DURATION only; _chunk_audio is called with any audio
InitChunk ==
    /\ ch_fn \in {"_chunk_long_audio", "_chunk_audio"}
    /\ ch_len \in 0..(MaxChunkedSeconds * SamplesPerSecond)
    /\ ch_fn = "_chunk_long_audio" => ch_len > MAX_CHUNK_DURATION * sample_rate
    /\ ch_start_idx = 0
    /\ ch_chunks = <<>>
    /\ ch_pc = "entry"

\* if audio_duration <= MAX_CHUNK_DURATION: return [audio_float32]
ChunkEntry ==
    /\ ch_pc = "entry"
    /\ IF ch_fn = "_chunk_audio" /\ ch_len <= MAX_CHUNK_DURATION * sample_rate
       THEN /\ ch_chunks' = <<<<0, ch_len>>>>
            /\ ch_pc' = "return"
       ELSE /\ ch_chunks' = <<>>
            /\ ch_pc' = "while"
    /\ UNCHANGED <<ch_fn, ch_len, ch_start_idx>>

\* one evaluation of the while condition and, if it holds, of the loop body
ChunkLoop ==
    /\ ch_pc = "while"
    /\ IF ch_start_idx < ch_len
       THEN LET end_idx == Min2(ch_start_idx + chunk_samples, ch_len)
            IN /\ ch_chunks' = Append(ch_chunks, <<ch_start_idx, end_idx>>)
               /\ ch_start_idx' = ch_start_idx + stride_samples
               /\ ch_pc' = IF end_idx >= ch_len THEN "return" ELSE "while"
       ELSE /\ ch_pc' = "return"
            /\ UNCHANGED <<ch_chunks, ch_start_idx>>
    /\ UNCHANGED <<ch_fn, ch_len>>

\* the chunk list of an audio of n samples, as the loop produces it
RECURSIVE ChunkList(_, _)
ChunkList(n, start_idx) ==
    IF start_idx < n
    THEN LET end_idx == Min2(start_idx + chunk_samples, n)
         IN IF end_idx >= n THEN <<<<start_idx, end_idx>>>>
            ELSE <<<<start_idx, end_idx>>>> \o ChunkList(n, start_idx + stride_samples)
    ELSE <<>>

\* ------------- the merge loop of get_final_transcription / _transcribe_chunked
IdleFold ==
    /\ f_spoken = <<>> /\ f_windows = <<>> /\ f_i = 0
    /\ f_merged_text = <<>> /\ f_pc = "idle"
    /\ f_fn = "none" /\ f_engine = <<>>

\* windows over the spoken words 1..n: the first starts at word 1, the last
\* ends at word n, consecutive windows share at least one word and each
\* window starts and ends after its predecessor
WindowSplits(n) ==
    {w \in UNION {[1..k -> (1..n) \X (1..n)] : k \in 1..MaxWindows} :
        /\ w[1][1] = 1
        /\ w[Len(w)][2] = n
        /\ \A i \in 1..Len(w) : w[i][1] <= w[i][2]
        /\ \A i \in 1..(Len(w) - 1) :
              /\ w[i + 1][1] > w[i][1]
              /\ w[i + 1][2] > w[i][2]
              /\ w[i + 1][1] <= w[i][2]}

\* the two functions that run the loop, and what model.transcribe does on a
\* window: return the text, raise NeMo's ValueError "Cannot unfreeze ...", or
\* raise any other exception
FoldFns == {"get_final_transcription", "_transcribe_chunked"}
EngineOutcomes == {"text", "unfreeze", "error"}

FoldStart ==
    /\ f_spoken \in WordSeqs(MaxSpoken) \ {<<>>}
    /\ f_windows \in WindowSplits(Len(f_spoken))
    /\ f_fn \in FoldFns
    /\ f_i = 0
    /\ f_merged_text = <<>>
    /\ f_pc = "for"

\* the engine transcribes every window
InitFold == FoldStart /\ f_engine = [i \in 1..Len(f_windows) |-> "text"]

\* the engine may fail on any window
InitFailing == FoldStart /\ f_engine \in [1..Len(f_windows) -> EngineOutcomes]

\* the ASR text of a window is exactly the words it covers
WindowText(i) == join(SubSeq(f_spoken, f_windows[i][1], f_windows[i][2]))

\* for i, chunk in enumerate(chunks): ... merged_text = merge_text(merged_text, chunk_text, overlap_words=5)
\* get_final_transcription: "Cannot unfreeze" gives output = [] and the window
\* is skipped, any other exception leaves the loop through the outer handler
\* and the function returns "";  _transcribe_chunked: except Exception inside
\* the loop, the window is skipped
FoldStep ==
    /\ f_pc = "for"
    /\ IF f_i >= Len(f_windows)
       THEN /\ f_pc' = "return"
            /\ UNCHANGED <<f_merged_text, f_i>>
       ELSE IF f_engine[f_i + 1] = "text"
       THEN /\ f_merged_text' = merge_text(f_merged_text,
                                  _clean_text([kind |-> "text", wrap |-> "none",
                                               body |-> WindowText(f_i + 1)]), 5)
            /\ f_i' = f_i + 1
            /\ f_pc' = "for"
       ELSE IF f_fn = "_transcribe_chunked" \/ f_engine[f_i + 1] = "unfreeze"
       THEN /\ f_i' = f_i + 1
            /\ f_pc' = "for"
            /\ UNCHANGED f_merged_text
       ELSE /\ f_merged_text' = <<>>
            /\ f_pc' = "return"
            /\ UNCHANGED f_i
    /\ UNCHANGED <<f_spoken, f_windows, f_fn, f_engine>>

\* ------------------------------------------------ get_final_transcription
\* the chunked branch: an exception of a model call leaves the function through
\* the outer handler, an empty output skips the chunk
RECURSIVE FinalChunked(_, _, _, _)
FinalChunked(chunks, outs, i, merged_text) ==
    IF i > Len(chunks) THEN merged_text
    ELSE IF outs[i].kind = "error" THEN <<>>
    ELSE IF outs[i].kind = "nothing" THEN FinalChunked(chunks, outs, i + 1, merged_text)
    ELSE FinalChunked(chunks, outs, i + 1,
                      merge_text(merged_text, _clean_text(outs[i]), 5))

\* the number of model.transcribe calls of get_final_transcription
FinalCalls(audio) ==
    IF Len(audio) * 10 < sample_rate * 3 THEN 0
    ELSE IF Len(audio) > MAX_CHUNK_DURATION * sample_rate
    THEN Len(ChunkList(Len(audio), 0))
    ELSE 1

get_final_transcription(audio, outs) ==
    IF Len(audio) * 10 < sample_rate * 3 THEN <<>>
    ELSE IF Len(audio) > MAX_CHUNK_DURATION * sample_rate
    THEN FinalChunked(ChunkList(Len(audio), 0), outs, 1, <<>>)
    ELSE IF outs[1].kind = "text" THEN _clean_text(outs[1]) ELSE <<>>

\* --------------------------------------------------- websocket_transcribe
Variants == {"backend", "mac", "windows"}
NoMode == [id |-> 0, name |-> "null", is_default |-> FALSE, auto_switch_apps |-> {},
           use_cleanup |-> TRUE, use_dictionary |-> TRUE, use_snippets |-> TRUE,
           use_ai_polish |-> FALSE]

\* the rows of the modes table, in query order
ModeTable ==
    << [id |-> 1, name |-> "default", is_default |-> TRUE, auto_switch_apps |-> {},
        use_cleanup |-> TRUE, use_dictionary |-> TRUE, use_snippets |-> TRUE,
        use_ai_polish |-> FALSE],
       [id |-> 2, name |-> "email", is_default |-> FALSE, auto_switch_apps |-> {"mail"},
        use_cleanup |-> TRUE, use_dictionary |-> TRUE, use_snippets |-> TRUE,
        use_ai_polish |-> TRUE],
       [id |-> 3, name |-> "raw", is_default |-> FALSE, auto_switch_apps |-> {"term"},
        use_cleanup |-> FALSE, use_dictionary |-> FALSE, use_snippets |-> FALSE,
        use_ai_polish |-> FALSE] >>

\* app_name.lower().find(a.lower()) >= 0 on the app names of the model
FindIn == {<<"mail", "mail">>, <<"hotmail", "mail">>, <<"term", "term">>}
ModeIds == {0, 2, 3, 9}
AppNames == {"", "mail", "hotmail", "other"}

\* .first() of a query, or the first row a loop reaches: hits are row numbers
FirstRow(hits) ==
    IF hits = {} THEN NoMode
    ELSE ModeTable[CHOOSE i \in hits : \A j \in hits : i <= j]

Rows == 1..Len(ModeTable)

\* the mode chosen from the auth message of the mac backend
SelectMode(mode_id, app_name) ==
    IF mode_id # 0
    THEN FirstRow({i \in Rows : ModeTable[i].id = mode_id})
    ELSE LET auto == IF app_name # ""
                     THEN FirstRow({i \in Rows :
                              \E a \in ModeTable[i].auto_switch_apps :
                                  <<app_name, a>> \in FindIn})
                     ELSE NoMode
         IN IF auto # NoMode THEN auto
            ELSE FirstRow({i \in Rows : ModeTable[i].is_default})

IdleSession ==
    /\ variant = "none" /\ model_loaded = FALSE /\ s_pc = "idle"
    /\ auth_result = "none" /\ close_code = 0 /\ sent = <<>> /\ saved = <<>>
    /\ mode = NoMode /\ final_text = <<>> /\ stop_handled = FALSE
    /\ transcribe_task = "none" /\ threads = 0 /\ task_result = <<<<>>, <<>>>>
    /\ last_partial = <<>> /\ last_confirmed = <<>> /\ active_sessions = {}

\* the state when websocket.accept() has returned
InitSession ==
    /\ variant \in Variants /\ model_loaded \in BOOLEAN /\ s_pc = "accepted"
    /\ auth_result = "none" /\ close_code = 0 /\ sent = <<>> /\ saved = <<>>
    /\ mode = NoMode /\ final_text = <<>> /\ stop_handled = FALSE
    /\ transcribe_task = "none" /\ threads = 0 /\ task_result = <<<<>>, <<>>>>
    /\ last_partial = <<>> /\ last_confirmed = <<>> /\ active_sessions = {}

ErrorMsg(e) == [error |-> e]
MsgType(msg) == IF "type" \in DOMAIN msg THEN msg.type ELSE "absent"
\* MAX_CHUNK_SIZE bytes of int16 samples, at the model's sample rate
REAL_SAMPLE_RATE == 16000
MAX_CHUNK_SIZE == 1048576
MaxFrameSamples == ((MAX_CHUNK_SIZE \div 2) * SamplesPerSecond) \div REAL_SAMPLE_RATE
TooLarge == [error |-> "Chunk too large", max_size |-> MAX_CHUNK_SIZE]
PartialMsg(p, c) == [type |-> "partial", partial |-> p, confirmed |-> c]

sessRest == <<saved, final_text, stop_handled, transcribe_task, threads,
              task_result, last_partial, last_confirmed>>

\* if not transcription_service.is_model_loaded(): ... close(); return
ModelCheck(msgs) ==
    IF model_loaded
    THEN /\ sent' = msgs
         /\ s_pc' = "streaming"
         /\ close_code' = close_code
    ELSE /\ sent' = Append(msgs, ErrorMsg("ASR model not loaded"))
         /\ s_pc' = "closed"
         /\ close_code' = 1000

\* backend and mac: a valid auth message arrives in time
AuthValid(mode_id, app_name) ==
    /\ s_pc = "accepted" /\ variant \in {"backend", "mac"}
    /\ auth_result' = "valid"
    /\ mode' = IF variant = "mac" THEN SelectMode(mode_id, app_name) ELSE NoMode
    /\ ModelCheck(sent)
    /\ UNCHANGED <<variant, model_loaded, active_sessions, sessRest, recVars>>

AuthCloses(result, err, code) ==
    /\ s_pc = "accepted" /\ variant \in {"backend", "mac"}
    /\ auth_result' = result
    /\ sent' = Append(sent, ErrorMsg(err))
    /\ close_code' = code
    /\ s_pc' = "closed"
    /\ UNCHANGED <<variant, model_loaded, mode, active_sessions, sessRest, recVars>>

\* the first message is not an auth message or carries a wrong token
AuthInvalid == AuthCloses("invalid", "Authentication failed", 4001)
\* no message within 5 seconds
AuthTimeout == AuthCloses("timeout", "Authentication timeout", 4002)
\* the first message is not JSON, or the client is gone
AuthError == AuthCloses("error", "Authentication error", 4003)

\* windows: the session is registered and announced, no auth message is read
WinSessionStart ==
    /\ s_pc = "accepted" /\ variant = "windows"
    /\ active_sessions' = active_sessions \cup {"session_id"}
    /\ ModelCheck(Append(sent, [type |-> "session_start"]))
    /\ UNCHANGED <<variant, model_loaded, auth_result, mode, sessRest, recVars>>

\* a binary frame of n samples: mac and windows reject a frame above
\* MAX_CHUNK_SIZE, otherwise the samples are appended to the accumulator
RecvAudio(n) ==
    /\ s_pc = "streaming"
    /\ IF variant # "backend" /\ n > MaxFrameSamples
       THEN /\ sent' = Append(sent, TooLarge)
            /\ UNCHANGED recVars
       ELSE /\ add_audio_chunk(n)
            /\ sent' = sent
    /\ UNCHANGED <<variant, model_loaded, s_pc, auth_result, close_code, mode,
                   active_sessions, sessRest>>

\* backend and mac: the periodic pass runs inside the receive loop
Tick(out) ==
    /\ s_pc = "streaming" /\ variant \in {"backend", "mac"}
    /\ transcribe_current(out)
    /\ sent' = IF ret_partial' # <<>> \/ ret_confirmed' # <<>>
               THEN Append(sent, PartialMsg(ret_partial', ret_confirmed'))
               ELSE sent
    /\ UNCHANGED <<variant, model_loaded, s_pc, auth_result, close_code, mode,
                   active_sessions, sessRest>>

\* a new pass is started although one may be outstanding
TaskFree_Always == TRUE

\* if transcribe_task is None or transcribe_task.done(): the finished task
\* has been collected earlier in the same iteration
TaskFree == transcribe_task = "none"

\* windows: asyncio.create_task(asyncio.to_thread(transcribe_current))
WinTaskStart ==
    /\ s_pc = "streaming" /\ variant = "windows"
    /\ TaskFree
    /\ threads + passes < MaxPasses
    /\ transcribe_task' = "pending"
    /\ threads' = threads + 1
    /\ UNCHANGED <<variant, model_loaded, s_pc, auth_result, close_code, sent, saved,
                   mode, final_text, stop_handled, task_result, last_partial,
                   last_confirmed, active_sessions, recVars>>

\* windows: the worker thread runs the pass; a cancelled task does not stop it
WinThreadRun(out) ==
    /\ threads > 0
    /\ transcribe_current(out)
    /\ threads' = threads - 1
    /\ IF transcribe_task = "pending"
       THEN /\ transcribe_task' = "done"
            /\ task_result' = <<ret_partial', ret_confirmed'>>
       ELSE UNCHANGED <<transcribe_task, task_result>>
    /\ UNCHANGED <<variant, model_loaded, s_pc, auth_result, close_code, sent, saved,
                   mode, final_text, stop_handled, last_partial, last_confirmed,
                   active_sessions>>

\* windows: the loop collects the finished task and reports a changed pair
WinCollect ==
    /\ s_pc = "streaming" /\ variant = "windows"
    /\ transcribe_task = "done"
    /\ LET partial == task_result[1]
           confirmed == task_result[2]
       IN IF partial # last_partial \/ confirmed # last_confirmed
          THEN /\ last_partial' = partial
               /\ last_confirmed' = confirmed
               /\ sent' = IF partial # <<>> \/ confirmed # <<>>
                          THEN Append(sent, PartialMsg(partial, confirmed))
                          ELSE sent
          ELSE UNCHANGED <<last_partial, last_confirmed, sent>>
    /\ transcribe_task' = "none"
    /\ UNCHANGED <<variant, model_loaded, s_pc, auth_result, close_code, saved,
                   mode, final_text, stop_handled, threads, task_result,
                   active_sessions, recVars>>

\* the snippets are substituted before the cleanup and the dictionary
Stages_SnippetsFirst(m, polish) ==
    (IF m.use_snippets THEN <<"snippets">> ELSE <<>>)
    \o (IF m.use_cleanup THEN <<"cleanup">> ELSE <<>>)
    \o (IF m.use_dictionary THEN <<"dictionary">> ELSE <<>>)
    \o (IF polish THEN <<"ai_polish">> ELSE <<>>)

\* the text pipeline on the final text: the stages applied, in order
Stages(m, polish) ==
    (IF m.use_cleanup THEN <<"cleanup">> ELSE <<>>)
    \o (IF m.use_dictionary THEN <<"dictionary">> ELSE <<>>)
    \o (IF m.use_snippets THEN <<"snippets">> ELSE <<>>)
    \o (IF polish THEN <<"ai_polish">> ELSE <<>>)

FinalMsg(text, raw, m, command_type) ==
    [type |-> "final", text |-> text, raw |-> raw,
     mode |-> IF variant = "backend" THEN "absent" ELSE m.name,
     command_type |-> IF variant = "backend" THEN "absent" ELSE command_type]

\* the handling of the text message "stop".  env.snippets_raise: the snippet
\* query or substitution raises; env.db_raises: saving the transcription
\* raises; env.configured, env.polish_ok: the AI polish service is configured
\* and its call succeeds
Stop(outs, env) ==
    /\ s_pc = "streaming"
    /\ LET raw == get_final_transcription(accumulated_audio, outs)
           m == IF variant = "mac" THEN mode ELSE NoMode
           polish_called == variant # "backend" /\ m.use_ai_polish /\ env.configured
           polished == IF raw = <<>> THEN [raw |-> raw, applied |-> <<>>]
                       ELSE [raw |-> raw,
                             applied |-> Stages(m, polish_called /\ env.polish_ok)]
           command_type == IF raw # <<>> /\ polish_called /\ env.polish_ok
                           THEN "polished" ELSE "none"
           snippets_raise == raw # <<>> /\ m.use_snippets /\ env.snippets_raise
           save_raises == raw # <<>> /\ env.db_raises
           row == [raw_text |-> raw, polished_text |-> polished, mode_name |-> m.name]
       IN /\ final_text' = raw
          /\ stop_handled' = TRUE
          /\ transcribe_task' = IF transcribe_task = "pending" THEN "cancelled"
                                ELSE transcribe_task
          /\ IF snippets_raise \/ (save_raises /\ variant # "windows")
             THEN \* except Exception: the handler prints the error and ends
                  /\ UNCHANGED <<sent, saved, recVars>>
             ELSE /\ saved' = IF raw # <<>> /\ ~save_raises
                              THEN Append(saved, row) ELSE saved
                  /\ sent' = Append(sent, FinalMsg(polished, raw, m, command_type))
                  /\ reset
          /\ s_pc' = "closed"
          /\ active_sessions' = IF variant = "windows" THEN {} ELSE active_sessions
    /\ UNCHANGED <<variant, model_loaded, auth_result, close_code, mode, threads,
                   task_result, last_partial, last_confirmed>>

\* the client is gone and WebSocketDisconnect is raised (by a send to the
\* closed socket): except WebSocketDisconnect resets the transcriber
Disconnect ==
    /\ s_pc = "streaming"
    /\ reset
    /\ s_pc' = "disconnected"
    /\ active_sessions' = IF variant = "windows" THEN {} ELSE active_sessions
    /\ UNCHANGED <<variant, model_loaded, auth_result, close_code, sent, saved, mode,
                   final_text, stop_handled, transcribe_task, threads, task_result,
                   last_partial, last_confirmed>>

\* the client is gone and websocket.receive() returns the disconnect message,
\* which has neither "bytes" nor "text"; the next receive() raises
\* RuntimeError, which except Exception logs: the transcriber is not reset
DisconnectMessage ==
    /\ s_pc = "streaming"
    /\ s_pc' = "disconnected"
    /\ active_sessions' = IF variant = "windows" THEN {} ELSE active_sessions
    /\ UNCHANGED <<variant, model_loaded, auth_result, close_code, sent, saved, mode,
                   final_text, stop_handled, transcribe_task, threads, task_result,
                   last_partial, last_confirmed, recVars>>

\* ------------------------------------------------- AIPolishService
\* what the HTTP call of polish_with_mode can come back with: a timeout, a
\* connection error, or a response with a status and a body; the body is not
\* JSON, JSON without "choices", JSON with a null content, or JSON with a content
StatusCodes == {200, 201, 404, 500}
BodyKinds == {"not_json", "no_choices", "null_content", "content"}
Contents == {<<>>, <<"b">>, <<SP, "b", SP>>}
Responses ==
    {[kind |-> k, status |-> 0, body |-> "none", content |-> <<>>] :
        k \in {"timeout", "connect_error"}}
    \cup {[kind |-> "http", status |-> st, body |-> b, content |-> <<>>] :
            st \in StatusCodes, b \in BodyKinds \ {"content"}}
    \cup {[kind |-> "http", status |-> st, body |-> "content", content |-> c] :
            st \in StatusCodes, c \in Contents}

\* every status counts as a success
StatusOk_Any(status) == TRUE

\* if response.status_code != 200: ... "success": False
StatusOk(status) == status = 200

\* _extract_polished_text: none of the prefixes, quotes or commentary it removes
\* can be written with the words of the model, what is left is the stripping
_extract_polished_text(response) == strip(response)

PolishResult(success, polished_text) ==
    [success |-> success, polished_text |-> polished_text]

polish_with_mode(text, configured, response) ==
    IF text = <<>> \/ strip(text) = <<>> THEN PolishResult(TRUE, text)
    ELSE IF ~configured THEN PolishResult(FALSE, text)
    ELSE IF response.kind = "timeout" THEN PolishResult(FALSE, text)
    ELSE IF response.kind = "connect_error" THEN PolishResult(FALSE, text)
    ELSE IF ~StatusOk(response.status) THEN PolishResult(FALSE, text)
    ELSE IF response.body # "content" THEN PolishResult(FALSE, text)
    ELSE PolishResult(TRUE, _extract_polished_text(strip(response.content)))

\* the stage in the pipeline: if result["success"]: polished_text = result[...]
AfterPolish(polished_text, result) ==
    IF result.success THEN result.polished_text ELSE polished_text

IdlePolish ==
    /\ p_text = <<>> /\ p_response = "none" /\ p_result = "none"
    /\ p_polished_text = <<>> /\ p_pc = "idle"

InitPolish ==
    /\ p_text \in Texts(MaxPolishWords)
    /\ p_response \in Responses
    /\ p_result = "none"
    /\ p_polished_text = p_text
    /\ p_pc = "call"

\* use_ai_polish is set and the service is configured: the stage runs
PolishStage ==
    /\ p_pc = "call"
    /\ p_result' = polish_with_mode(p_polished_text, TRUE, p_response)
    /\ p_polished_text' = AfterPolish(p_polished_text, p_result')
    /\ p_pc' = "return"
    /\ UNCHANGED <<p_text, p_response>>

\* ------------------------------------------- personal dictionary, settings
\* strings are sequences of characters here
MAX_DICTIONARY_ENTRIES == 500
MAX_MISHEARING_LENGTH == 100
MAX_CORRECTION_LENGTH == 200
DANGEROUS_REGEX_CHARS == {"[", "]", "(", ")", "{", "}", "*", "+", "?", "|", "^", "$", "\\"}

Rep(c, n) == [i \in 1..n |-> c]
Alternating(n) == [i \in 1..n |-> IF i % 3 = 0 THEN "a" ELSE IF i % 3 = 1 THEN "b" ELSE "c"]

\* len(mishearing) > 10 and max(char_counts.values()) > len(mishearing) * 0.8
TooRepetitive(mishearing) ==
    /\ Len(mishearing) > 10
    /\ \E c \in {lower(mishearing[i]) : i \in 1..Len(mishearing)} :
          Cardinality({i \in 1..Len(mishearing) : lower(mishearing[i]) = c}) * 10
              > Len(mishearing) * 8

validate_dictionary_entry(mishearing0, correction0) ==
    IF mishearing0 = <<>> \/ strip(mishearing0) = <<>> THEN FALSE
    ELSE IF correction0 = <<>> \/ strip(correction0) = <<>> THEN FALSE
    ELSE LET mishearing == strip(mishearing0)
             correction == strip(correction0)
         IN IF Len(mishearing) > MAX_MISHEARING_LENGTH THEN FALSE
            ELSE IF Len(correction) > MAX_CORRECTION_LENGTH THEN FALSE
            ELSE IF \E i \in 1..Len(mishearing) : mishearing[i] \in DANGEROUS_REGEX_CHARS
            THEN FALSE
            ELSE ~TooRepetitive(mishearing)

\* the request bodies of the model
Mishearings == {<<>>, <<SP>>, <<"a">>, <<"a", "b">>, <<SP, "a", SP>>, <<"*">>,
                <<"a", "[">>, Rep("a", 11), Alternating(11),
                Rep("a", MAX_MISHEARING_LENGTH + 1)}
Corrections == {<<>>, <<"b">>, <<SP, "a">>, Rep("b", MAX_CORRECTION_LENGTH + 1)}
NoEntries == [m \in {} |-> <<>>]
RequestDictionaries ==
    {NoEntries, [m \in {<<"a">>} |-> <<"b">>], [m \in {<<"*">>} |-> <<"b">>],
     [m \in {Rep("a", 11), <<"b">>} |-> <<"b">>]}

IdleDict == personal_dictionary = NoEntries /\ d_status = "none" /\ d_ops = 0

\* a fresh settings row
InitDict == personal_dictionary = NoEntries /\ d_status = "none" /\ d_ops = 0

\* POST /api/settings
update_settings(request_dictionary) ==
    /\ personal_dictionary' = request_dictionary
    /\ d_status' = "success"
    /\ d_ops' = d_ops + 1

\* POST /api/settings/dictionary/add
add_dictionary_entry(mishearing0, correction0) ==
    /\ d_ops' = d_ops + 1
    /\ IF ~validate_dictionary_entry(mishearing0, correction0)
       THEN d_status' = "400" /\ UNCHANGED personal_dictionary
       ELSE LET mishearing == strip(mishearing0)
                correction == strip(correction0)
                current_size == Cardinality(DOMAIN personal_dictionary)
            IN IF current_size >= MAX_DICTIONARY_ENTRIES
                  /\ mishearing \notin DOMAIN personal_dictionary
               THEN d_status' = "400" /\ UNCHANGED personal_dictionary
               ELSE /\ personal_dictionary' =
                          [m \in DOMAIN personal_dictionary \cup {mishearing} |->
                              IF m = mishearing THEN correction
                              ELSE personal_dictionary[m]]
                    /\ d_status' = "added"

\* DELETE /api/settings/dictionary/{mishearing}
remove_dictionary_entry(mishearing) ==
    /\ d_ops' = d_ops + 1
    /\ IF mishearing \in DOMAIN personal_dictionary
       THEN /\ personal_dictionary' =
                  [m \in DOMAIN personal_dictionary \ {mishearing} |->
                      personal_dictionary[m]]
            /\ d_status' = "deleted"
       ELSE d_status' = "Not found" /\ UNCHANGED personal_dictionary

\* ----------------------------------------- the shared model of a process
\* Two sessions and the single-shot endpoint use transcription_service.model.
\* A call made directly in a coroutine keeps the event loop until it returns;
\* a call made through asyncio.to_thread runs beside the event loop.
EngSessions == {1, 2}
LoopFree == <<"free", 0>>

IdleEngine ==
    /\ e_variant = "none" /\ e_state = <<>> /\ e_pass = <<>> /\ e_final = <<>>
    /\ e_http = "idle" /\ e_loop = LoopFree /\ e_calls = 0

InitEngine ==
    /\ e_variant \in Variants
    /\ e_state = [s \in EngSessions |-> "streaming"]
    /\ e_pass = [s \in EngSessions |-> "none"]
    /\ e_final = [s \in EngSessions |-> "none"]
    /\ e_http = "idle" /\ e_loop = LoopFree /\ e_calls = 0

InThread == e_variant = "windows"

\* the callers that are inside model.transcribe
Inferring ==
    {<<"pass", s>> : s \in {x \in EngSessions : e_pass[x] = "running"}}
    \cup {<<"final", s>> : s \in {x \in EngSessions : e_final[x] = "running"}}
    \cup (IF e_http = "running" THEN {<<"http", 0>>} ELSE {})

\* the periodic pass of session s starts
EnginePassBegin(s) ==
    /\ e_loop = LoopFree /\ e_state[s] = "streaming" /\ e_pass[s] = "none"
    /\ e_pass' = [e_pass EXCEPT ![s] = "running"]
    /\ e_loop' = IF InThread THEN e_loop ELSE <<"pass", s>>
    /\ e_calls' = e_calls + 1
    /\ UNCHANGED <<e_variant, e_state, e_final, e_http>>

EnginePassEnd(s) ==
    /\ e_pass[s] = "running"
    /\ e_pass' = [e_pass EXCEPT ![s] = "none"]
    /\ e_loop' = IF e_loop = <<"pass", s>> THEN LoopFree ELSE e_loop
    /\ UNCHANGED <<e_variant, e_state, e_final, e_http, e_calls>>

\* "stop" of session s: windows cancels the task, whose thread runs on, and
\* runs get_final_transcription in a thread of its own
EngineFinalBegin(s) ==
    /\ e_loop = LoopFree /\ e_state[s] = "streaming"
    /\ e_state' = [e_state EXCEPT ![s] = "final"]
    /\ e_final' = [e_final EXCEPT ![s] = "running"]
    /\ e_loop' = IF InThread THEN e_loop ELSE <<"final", s>>
    /\ e_calls' = e_calls + 1
    /\ UNCHANGED <<e_variant, e_pass, e_http>>

EngineFinalEnd(s) ==
    /\ e_final[s] = "running"
    /\ e_final' = [e_final EXCEPT ![s] = "done"]
    /\ e_state' = [e_state EXCEPT ![s] = "closed"]
    /\ e_loop' = IF e_loop = <<"final", s>> THEN LoopFree ELSE e_loop
    /\ UNCHANGED <<e_variant, e_pass, e_http, e_calls>>

\* POST /api/transcribe calls transcription_service.transcribe in the coroutine
EngineHttpBegin ==
    /\ e_loop = LoopFree /\ e_http # "running"
    /\ e_http' = "running"
    /\ e_loop' = <<"http", 0>>
    /\ e_calls' = e_calls + 1
    /\ UNCHANGED <<e_variant, e_state, e_pass, e_final>>

EngineHttpEnd ==
    /\ e_http = "running"
    /\ e_http' = "served"
    /\ e_loop' = LoopFree
    /\ UNCHANGED <<e_variant, e_state, e_pass, e_final, e_calls>>

\* ------------------------------------------------------------ RateLimiter
Clients == {"1.2.3.4", "5.6.7.8"}
RpmArgs == {2, 3}
WINDOW_SECONDS == 60
DEFAULT_CLEANUP_INTERVAL == 300
TickSeconds == 30

IdleRate ==
    /\ requests_per_minute = 0 /\ cleanup_interval = 0 /\ requests = EmptyDict
    /\ last_cleanup = 0 /\ rl_now = 0 /\ rl_client = "none" /\ rl_allowed = TRUE
    /\ rl_log = <<>>

\* RateLimiter(requests_per_minute, cleanup_interval = 300) at time 0
InitRate ==
    /\ requests_per_minute \in RpmArgs
    /\ cleanup_interval = DEFAULT_CLEANUP_INTERVAL
    /\ requests = EmptyDict
    /\ last_cleanup = 0 /\ rl_now = 0 /\ rl_client = "none" /\ rl_allowed = TRUE
    /\ rl_log = <<>>

MaxTime(times) == CHOOSE t \in {times[i] : i \in 1..Len(times)} :
                     \A i \in 1..Len(times) : times[i] <= t

\* _cleanup_old_entries: the dictionary after the sweep, and the sweep time
CleanupDue(now) == now - last_cleanup >= cleanup_interval
Swept(now) ==
    LET minute_ago == now - WINDOW_SECONDS
        empty_ips == {ip \in DOMAIN requests :
                        requests[ip] = <<>> \/ MaxTime(requests[ip]) < minute_ago}
    IN IF CleanupDue(now) THEN [ip \in DOMAIN requests \ empty_ips |-> requests[ip]]
       ELSE requests

\* every recorded request is kept, whatever its age
RecentOnly_KeepAll(times, minute_ago) == times

\* [req_time for req_time in self.requests[client_ip] if req_time > minute_ago]
RecentOnly(times, minute_ago) == SelectSeq(times, LAMBDA req_time : req_time > minute_ago)

\* a rejected call is recorded like an accepted one
RecordCall_Rejected(recent, allowed, now) == Append(recent, now)

\* if len(...) >= self.requests_per_minute: return False;  ....append(now)
RecordCall(recent, allowed, now) == IF allowed THEN Append(recent, now) ELSE recent

is_allowed(client_ip) ==
    LET now == rl_now
        minute_ago == now - WINDOW_SECONDS
        swept == Swept(now)
        old == IF client_ip \in DOMAIN swept THEN swept[client_ip] ELSE <<>>
        recent == RecentOnly(old, minute_ago)
        allowed == Len(recent) < requests_per_minute
        times == RecordCall(recent, allowed, now)
    IN /\ last_cleanup' = IF CleanupDue(now) THEN now ELSE last_cleanup
       /\ requests' = [ip \in DOMAIN swept \cup {client_ip} |->
                          IF ip = client_ip THEN times ELSE swept[ip]]
       /\ rl_client' = client_ip
       /\ rl_allowed' = allowed
       /\ rl_log' = IF allowed THEN Append(rl_log, <<client_ip, now>>) ELSE rl_log
       /\ UNCHANGED <<requests_per_minute, cleanup_interval, rl_now>>

\* time.time() moves on between two calls
AdvanceClock ==
    /\ rl_now + TickSeconds <= MaxClock
    /\ rl_now' = rl_now + TickSeconds
    /\ UNCHANGED <<requests_per_minute, cleanup_interval, requests, last_cleanup,
                   rl_client, rl_allowed, rl_log>>

\* the components beside the transcriber and the session, untouched
IdleAux == IdleRate /\ IdlePolish /\ IdleDict /\ IdleEngine

\* ---------------------------------------------------------- specifications
RecChunkLens == {SamplesPerSecond}
nonRecVars == <<mergeVars, chunkVars, foldVars, sessVars, auxVars>>

Pass == /\ \E out \in AsrOutputs(MaxWords) : transcribe_current(out)
        /\ UNCHANGED nonRecVars
AddChunk == /\ \E n \in RecChunkLens :
                  /\ total_appended + n <= MaxRecSeconds * SamplesPerSecond
                  /\ add_audio_chunk(n)
            /\ UNCHANGED nonRecVars
Reset == reset /\ UNCHANGED nonRecVars

Init == InitTranscriber /\ IdleMerge /\ IdleChunk /\ IdleFold /\ IdleSession /\ IdleAux
Next == AddChunk \/ Pass \/ Reset
Spec == Init /\ [][Next]_vars

\* the accumulator under long chunks, with a small reconciler beside it
AudioChunkLens == {0, 7 * SamplesPerSecond, 50 * SamplesPerSecond, 130 * SamplesPerSecond}
AddChunkAudio == /\ \E n \in AudioChunkLens :
                       /\ total_appended + n <= MaxAudioSeconds * SamplesPerSecond
                       /\ add_audio_chunk(n)
                 /\ UNCHANGED nonRecVars
PassAudio == /\ \E out \in AsrOutputs(1) : transcribe_current(out)
             /\ UNCHANGED nonRecVars
ResetAudio == reset /\ UNCHANGED nonRecVars
NextAudio == AddChunkAudio \/ PassAudio \/ ResetAudio
SpecAudio == Init /\ [][NextAudio]_vars

\* a fresh transcriber that no operation touches
IdleTranscriber == InitTranscriber /\ min_word_count = 4

\* merge_text applied to one pair of texts
MergeTextCall == MergeCall /\ UNCHANGED <<recVars, chunkVars, foldVars, sessVars, auxVars>>
InitSpecMerge == InitMerge /\ IdleTranscriber /\ IdleChunk /\ IdleFold /\ IdleSession /\ IdleAux
SpecMerge == InitSpecMerge /\ [][MergeTextCall]_vars

\* the chunkers applied to one audio length
ChunkerEntry == ChunkEntry /\ UNCHANGED <<recVars, mergeVars, foldVars, sessVars, auxVars>>
ChunkerLoop == ChunkLoop /\ UNCHANGED <<recVars, mergeVars, foldVars, sessVars, auxVars>>
NextChunk == ChunkerEntry \/ ChunkerLoop
InitSpecChunk == InitChunk /\ IdleTranscriber /\ IdleMerge /\ IdleFold /\ IdleSession /\ IdleAux
SpecChunk == InitSpecChunk /\ [][NextChunk]_vars /\ WF_vars(NextChunk)

\* the merge loop applied to the window transcriptions of one recording
MergeLoop == FoldStep /\ UNCHANGED <<recVars, mergeVars, chunkVars, sessVars, auxVars>>
InitSpecFold == InitFold /\ IdleTranscriber /\ IdleMerge /\ IdleChunk /\ IdleSession /\ IdleAux
SpecFold == InitSpecFold /\ [][MergeLoop]_vars

\* the merge loop of both functions with an engine that may fail on a window
InitSpecFailing == /\ InitFailing /\ IdleTranscriber /\ IdleMerge /\ IdleChunk
                   /\ IdleSession /\ IdleAux
SpecFailing == InitSpecFailing /\ [][MergeLoop]_vars

\* one session, from accept to the end of the handler
StopEnvs == {env \in [snippets_raise : BOOLEAN, db_raises : BOOLEAN,
                        configured : BOOLEAN, polish_ok : BOOLEAN] :
                env.polish_ok => env.configured}
otherVars == <<mergeVars, chunkVars, foldVars, auxVars>>
SessAuthValid == /\ \E mode_id \in ModeIds, app_name \in AppNames : AuthValid(mode_id, app_name)
                 /\ UNCHANGED otherVars
SessAuthInvalid == AuthInvalid /\ UNCHANGED otherVars
SessAuthTimeout == AuthTimeout /\ UNCHANGED otherVars
SessAuthError == AuthError /\ UNCHANGED otherVars
SessWinStart == WinSessionStart /\ UNCHANGED otherVars
SessFrameLens == {SamplesPerSecond, MaxFrameSamples + 1}
Rejected == Len(SelectSeq(sent, LAMBDA msg : msg = TooLarge))
SessRecvAudio == /\ total_appended < MaxRecSeconds * SamplesPerSecond
                 /\ Rejected < MaxOversize
                 /\ \E n \in SessFrameLens : RecvAudio(n)
                 /\ UNCHANGED otherVars
SessTick == /\ passes < MaxSessionPasses
            /\ \E out \in AsrOutputs(MaxSessionWords) : Tick(out)
            /\ UNCHANGED otherVars
SessWinTaskStart == /\ threads + passes < MaxSessionPasses
                    /\ WinTaskStart
                    /\ UNCHANGED otherVars
SessWinThreadRun == /\ \E out \in AsrOutputs(MaxSessionWords) : WinThreadRun(out)
                    /\ UNCHANGED otherVars
SessWinCollect == WinCollect /\ UNCHANGED otherVars
SessStop == /\ \E outs \in [1..FinalCalls(accumulated_audio) -> AsrOutputs(MaxSessionWords)],
                  env \in StopEnvs : Stop(outs, env)
            /\ UNCHANGED otherVars
SessDisconnect == Disconnect /\ UNCHANGED otherVars
SessDisconnectMessage == DisconnectMessage /\ UNCHANGED otherVars
NextSession == \/ SessAuthValid \/ SessAuthInvalid \/ SessAuthTimeout \/ SessAuthError
               \/ SessWinStart \/ SessRecvAudio \/ SessTick
               \/ SessWinTaskStart \/ SessWinThreadRun \/ SessWinCollect
               \/ SessStop \/ SessDisconnect \/ SessDisconnectMessage
InitSpecSession == /\ InitSession /\ IdleTranscriber /\ IdleMerge /\ IdleChunk
                   /\ IdleFold /\ IdleAux
SpecSession == InitSpecSession /\ [][NextSession]_vars

\* the rate limiter under calls of two clients
nonRateVars == <<recVars, mergeVars, chunkVars, foldVars, sessVars,
                 polishVars, dictVars, engVars>>
RateCall == /\ \E client_ip \in Clients : is_allowed(client_ip)
            /\ Len(rl_log') <= MaxAccepted
            /\ UNCHANGED nonRateVars
RateClock == AdvanceClock /\ UNCHANGED nonRateVars
NextRate == RateCall \/ RateClock
InitSpecRate == /\ InitRate /\ IdleTranscriber /\ IdleMerge /\ IdleChunk /\ IdleFold
                /\ IdleSession /\ IdlePolish /\ IdleDict /\ IdleEngine
SpecRate == InitSpecRate /\ [][NextRate]_vars

\* the polish stage on one text and one outcome of the HTTP call
PolishCall == /\ PolishStage
              /\ UNCHANGED <<recVars, mergeVars, chunkVars, foldVars, sessVars,
                             rateVars, dictVars, engVars>>
InitSpecPolish == /\ InitPolish /\ IdleTranscriber /\ IdleMerge /\ IdleChunk /\ IdleFold
                  /\ IdleSession /\ IdleRate /\ IdleDict /\ IdleEngine
SpecPolish == InitSpecPolish /\ [][PolishCall]_vars

\* the settings endpoints under a sequence of requests
nonDictVars == <<recVars, mergeVars, chunkVars, foldVars, sessVars,
                 rateVars, polishVars, engVars>>
DictUpdate == /\ d_ops < MaxDictOps
              /\ \E rd \in RequestDictionaries : update_settings(rd)
              /\ UNCHANGED nonDictVars
DictAdd == /\ d_ops < MaxDictOps
           /\ \E mishearing \in Mishearings, correction \in Corrections :
                 add_dictionary_entry(mishearing, correction)
           /\ UNCHANGED nonDictVars
DictRemove == /\ d_ops < MaxDictOps
              /\ \E mishearing \in Mishearings : remove_dictionary_entry(mishearing)
              /\ UNCHANGED nonDictVars
NextDict == DictUpdate \/ DictAdd \/ DictRemove
InitSpecDict == /\ InitDict /\ IdleTranscriber /\ IdleMerge /\ IdleChunk /\ IdleFold
                /\ IdleSession /\ IdleRate /\ IdlePolish /\ IdleEngine
SpecDict == InitSpecDict /\ [][NextDict]_vars

\* one process with two sessions and the single-shot endpoint
nonEngVars == <<recVars, mergeVars, chunkVars, foldVars, sessVars,
                rateVars, polishVars, dictVars>>
EngPassBegin == /\ e_calls < MaxEngineCalls
                /\ \E s \in EngSessions : EnginePassBegin(s)
                /\ UNCHANGED nonEngVars
EngPassEnd == (\E s \in EngSessions : EnginePassEnd(s)) /\ UNCHANGED nonEngVars
EngFinalBegin == /\ e_calls < MaxEngineCalls
                 /\ \E s \in EngSessions : EngineFinalBegin(s)
                 /\ UNCHANGED nonEngVars
EngFinalEnd == (\E s \in EngSessions : EngineFinalEnd(s)) /\ UNCHANGED nonEngVars
EngHttpBegin == e_calls < MaxEngineCalls /\ EngineHttpBegin /\ UNCHANGED nonEngVars
EngHttpEnd == EngineHttpEnd /\ UNCHANGED nonEngVars
NextEngine == \/ EngPassBegin \/ EngPassEnd \/ EngFinalBegin \/ EngFinalEnd
              \/ EngHttpBegin \/ EngHttpEnd
InitSpecEngine == /\ InitEngine /\ IdleTranscriber /\ IdleMerge /\ IdleChunk /\ IdleFold
                  /\ IdleSession /\ IdleRate /\ IdlePolish /\ IdleDict
SpecEngine == InitSpecEngine /\ [][NextEngine]_vars

\* ------------------------------------------------------------------ claims
IsPrefix(s, t) == Len(s) <= Len(t) /\ SubSeq(t, 1, Len(s)) = s

\* C1: between two resets every step leaves the confirmed text a prefix of the
\* new confirmed text, and the confirmed words a prefix of the new confirmed
\* words: words are only appended, never removed, edited or reordered.
C1_Monotonic ==
    [][op' # "reset" =>
          /\ IsPrefix(confirmed_text, confirmed_text')
          /\ IsPrefix(split(confirmed_text), split(confirmed_text'))
          /\ confirmed_word_count <= confirmed_word_count']_vars

\* C1 witness: a pass whose transcription contradicts the confirmed words
C1_Witness ==
    /\ op = "transcribe_current" /\ outcome = "ok"
    /\ confirmed_word_count >= 1
    /\ Len(split(last_transcription)) >= confirmed_word_count
    /\ LowerAll(TakeWords(split(last_transcription), confirmed_word_count))
           # LowerAll(split(confirmed_text))

Seen(obs, words, i) == Get(obs, <<i, lower(words[i + 1])>>)

\* C2 as stated: in a pass, the word of the transcription at a tracked position
\* is confirmed if and only if it has been observed at that position at least
\* min_word_count times.
C2_ThresholdIff ==
    [][(op' = "transcribe_current" /\ outcome' = "ok") =>
          LET words == split(last_transcription')
          IN \A i \in confirmed_word_count..(Len(words) - 1) :
                (i < confirmed_word_count') <=>
                    (Seen(observed', words, i) >= min_word_count)]_vars

\* C2 amended: in a pass, the word of the transcription at a tracked position is
\* confirmed if and only if it and every word of the transcription at the
\* tracked positions before it have each been observed at their position at
\* least min_word_count times; one observation fewer never confirms.
C2_Threshold ==
    [][(op' = "transcribe_current" /\ outcome' = "ok") =>
          LET words == split(last_transcription')
          IN /\ \A i \in confirmed_word_count..(Len(words) - 1) :
                   (i < confirmed_word_count') <=>
                       (\A j \in confirmed_word_count..i :
                            Seen(observed', words, j) >= min_word_count)
             /\ confirmed_word_count' <= Len(words) \/ confirmed_word_count' = confirmed_word_count
             /\ \A i \in confirmed_word_count..(confirmed_word_count' - 1) :
                   /\ split(confirmed_text')[i + 1] = words[i + 1]
                   /\ Seen(observed', words, i) > min_word_count - 1]_vars

\* C2 witness: with threshold 4 the fourth identical observation confirms the
\* first word while a later word stays partial
C2_Witness ==
    /\ op = "transcribe_current" /\ outcome = "ok"
    /\ min_word_count = 4 /\ passes = 4
    /\ confirmed_word_count = 1
    /\ Len(split(last_transcription)) = 2
    /\ ret_partial # <<>>

\* C3: with min_word_count = 1, a pass whose transcription extends the confirmed
\* words word for word confirms the whole transcription and returns an empty
\* partial text.
C3_EndToEnd ==
    [][(/\ min_word_count = 1
        /\ op' = "transcribe_current" /\ outcome' = "ok"
        /\ IsPrefix(split(confirmed_text), split(last_transcription'))) =>
          /\ confirmed_text' = join(split(last_transcription'))
          /\ confirmed_word_count' = Len(split(last_transcription'))
          /\ ret_confirmed' = confirmed_text'
          /\ ret_partial' = <<>>]_vars

\* C3 witness: a second pass has extended a confirmed one-word text
C3_Witness ==
    /\ min_word_count = 1 /\ passes >= 2
    /\ op = "transcribe_current" /\ outcome = "ok"
    /\ confirmed_word_count = 2
    /\ confirmed_text = join(split(last_transcription))
    /\ ret_partial = <<>>

\* C4: the buffer never exceeds MAX_BUFFER_SAMPLES and holds exactly the most
\* recent min(total appended, MAX_BUFFER_SAMPLES) samples in order; adding a
\* chunk leaves the reconciler fields unchanged.
C4_BufferWindow ==
    LET n == Len(accumulated_audio)
    IN /\ n <= MAX_BUFFER_SAMPLES
       /\ n = Min2(total_appended, MAX_BUFFER_SAMPLES)
       /\ \A i \in 1..n : accumulated_audio[i] = total_appended - n + i

C4_Frame ==
    [][op' = "add_audio_chunk" =>
          UNCHANGED <<confirmed_text, confirmed_word_count, word_counts>>]_vars

C4_SlidingWindow == []C4_BufferWindow /\ C4_Frame

\* C4 witness: samples have been evicted while confirmed words exist
C4_Witness ==
    /\ op = "add_audio_chunk"
    /\ total_appended > MAX_BUFFER_SAMPLES
    /\ Len(accumulated_audio) = MAX_BUFFER_SAMPLES
    /\ confirmed_word_count >= 1


\* C5: for every audio longer than MAX_CHUNK_DURATION both chunkers return, and
\* the returned chunks start at sample 0 and at successive multiples of the
\* stride, leave no sample of [0, N) uncovered, hold at most chunk_samples
\* samples each, never reach past N, and end exactly at N.
C5_Chunks ==
    (ch_pc = "return" /\ ch_len > MAX_CHUNK_DURATION * sample_rate) =>
        /\ Len(ch_chunks) >= 1
        /\ ch_chunks[1][1] = 0
        /\ \A i \in 1..Len(ch_chunks) :
              /\ ch_chunks[i][1] = (i - 1) * (chunk_samples - overlap_samples)
              /\ ch_chunks[i][1] < ch_chunks[i][2]
              /\ ch_chunks[i][2] - ch_chunks[i][1] <= chunk_samples
              /\ ch_chunks[i][2] <= ch_len
              /\ i < Len(ch_chunks) => ch_chunks[i][2] - ch_chunks[i][1] = chunk_samples
        /\ \A x \in 0..(ch_len - 1) :
              \E i \in 1..Len(ch_chunks) : ch_chunks[i][1] <= x /\ x < ch_chunks[i][2]
        /\ ch_chunks[Len(ch_chunks)][2] = ch_len
        /\ ch_chunks = ChunkList(ch_len, 0)

C5_ChunkCoverage == []C5_Chunks /\ <>(ch_pc = "return")

\* C5 witness: three chunks, the last one truncated
C5_Witness ==
    /\ ch_pc = "return"
    /\ Len(ch_chunks) = 3
    /\ ch_chunks[3][2] - ch_chunks[3][1] < chunk_samples
    /\ ch_chunks[3][2] = ch_len

\* the overlap lengths within the bound at which tail and head agree
MatchingOverlaps(existing_words, new_words, overlap_words) ==
    {k \in 1..Min3(overlap_words, Len(existing_words), Len(new_words)) :
        LowerAll(LastWords(existing_words, k)) = LowerAll(TakeWords(new_words, k))}
MaxOf(S) == CHOOSE k \in S : \A j \in S : j <= k

\* C6: when both texts have words and some overlap length within the bound
\* matches, the result is the existing text followed by the new chunk's words
\* after the first k, for the largest matching k.
C6_LongestOverlap ==
    m_pc = "return" =>
        LET ew == split(m_existing)
            nw == split(m_new_chunk)
            K == MatchingOverlaps(ew, nw, m_overlap_words)
        IN (ew # <<>> /\ nw # <<>> /\ K # {}) =>
              LET rest == DropWords(nw, MaxOf(K))
              IN /\ split(m_result) = ew \o rest
                 /\ m_result = IF rest = <<>> THEN strip(m_existing)
                               ELSE strip(m_existing) \o <<SP>> \o join(rest)

\* C6 witness: a shorter and a longer overlap both match and the longer is removed
C6_Witness ==
    /\ m_pc = "return"
    /\ Cardinality(MatchingOverlaps(split(m_existing), split(m_new_chunk),
                                    m_overlap_words)) >= 2
    /\ Len(split(m_result)) = Len(split(m_existing)) + 1

\* C7: merging with an empty text returns the other text stripped (the text
\* itself when it has no surrounding blanks); when both texts have words and no
\* overlap length matches, the result is the existing text, one blank, and the
\* whole new chunk.
C7_Identities ==
    m_pc = "return" =>
        LET ew == split(m_existing)
            nw == split(m_new_chunk)
        IN /\ m_existing = <<>> => m_result = strip(m_new_chunk)
           /\ (m_existing = <<>> /\ strip(m_new_chunk) = m_new_chunk) => m_result = m_new_chunk
           /\ m_new_chunk = <<>> => m_result = strip(m_existing)
           /\ (ew # <<>> /\ nw # <<>>
                 /\ MatchingOverlaps(ew, nw, m_overlap_words) = {}) =>
                 /\ m_result = strip(m_existing) \o <<SP>> \o strip(m_new_chunk)
                 /\ split(m_result) = ew \o nw

\* C7 witness: two texts of two words each without a matching overlap
C7_Witness ==
    /\ m_pc = "return"
    /\ Len(split(m_existing)) = 2 /\ Len(split(m_new_chunk)) = 2
    /\ MatchingOverlaps(split(m_existing), split(m_new_chunk), m_overlap_words) = {}
    /\ Len(split(m_result)) = 4

\* C8: when the merge loop has folded the transcriptions of all windows, the
\* merged text holds exactly the spoken words, each once and in order.
C8_ExactlyOnce ==
    f_pc = "return" => split(f_merged_text) = f_spoken

\* C9: a session streams, appends audio, runs a reconciliation pass or handles
\* stop only after a valid auth message; a timeout closes it with code 4002 and
\* an invalid token with code 4001.
C9_AuthGate ==
    /\ (s_pc = "streaming" \/ total_appended > 0 \/ passes > 0 \/ stop_handled)
          => auth_result = "valid"
    /\ auth_result = "timeout" => (s_pc = "closed" /\ close_code = 4002)
    /\ auth_result = "invalid" => (s_pc = "closed" /\ close_code = 4001)

\* C10: when stop has been handled and the final transcription is not empty, a
\* final message carrying that text in its raw field has been sent.
C10_FinalAlwaysSent ==
    (stop_handled /\ final_text # <<>>) =>
        \E i \in 1..Len(sent) : MsgType(sent[i]) = "final" /\ sent[i].raw = final_text

\* C11: the step that sends a final message leaves the session in Streaming,
\* with the accumulator and the reconciler reset.
C11_SessionContinues ==
    [][(Len(sent') = Len(sent) + 1 /\ MsgType(sent'[Len(sent')]) = "final")
          => (s_pc' = "streaming" /\ accumulated_audio' = <<>>
              /\ confirmed_text' = <<>>)]_vars

\* C12: once stop has been handled no reconciliation pass of the session is
\* executing: no worker thread is inside transcribe_current.
C12_PassCancelled == stop_handled => threads = 0

\* C13: at most one caller is inside model.transcribe at any time.
C13_Serialized == Cardinality(Inferring) <= 1

\* C14: at most one reconciliation pass of a session is outstanding, an
\* outstanding task has exactly one thread behind it, and a pass is started
\* only when none is outstanding.
C14_OnePass ==
    /\ threads <= 1
    /\ transcribe_task = "pending" => threads = 1
C14_Sequential ==
    [][threads' > threads => (threads = 0 /\ transcribe_task # "pending")]_vars
C14_SinglePass == []C14_OnePass /\ C14_Sequential

\* C14 witness: the first pass has completed and been collected, a partial was
\* sent, and the second pass is outstanding
C14_Witness ==
    /\ variant = "windows" /\ passes = 1 /\ threads = 1
    /\ transcribe_task = "pending"
    /\ \E i \in 1..Len(sent) : MsgType(sent[i]) = "partial"

\* C15: no two consecutive partial messages of a session carry the same
\* partial and the same confirmed text.
Partials == SelectSeq(sent, LAMBDA msg : MsgType(msg) = "partial")
C15_NoRepeatedPartial ==
    \A i \in 1..(Len(Partials) - 1) : Partials[i] # Partials[i + 1]

\* C16: no step appends more samples than fit a frame of MAX_CHUNK_SIZE
\* bytes: a larger frame leaves the accumulator unchanged.
C16_OversizeRejected ==
    [][total_appended' - total_appended <= MaxFrameSamples]_vars

\* C17: after a disconnect before stop the reconciler is in its reset state,
\* no final transcription has run, nothing is saved and no final was sent.
C17_DisconnectDiscards ==
    (s_pc = "disconnected" /\ ~stop_handled) =>
        /\ accumulated_audio = <<>> /\ last_transcription = <<>>
        /\ confirmed_text = <<>> /\ confirmed_word_count = 0
        /\ word_counts = EmptyDict
        /\ saved = <<>>
        /\ \A i \in 1..Len(sent) : MsgType(sent[i]) # "final"

\* the accepted calls of client c later than 60 seconds before now
AcceptedInWindow(c, now) ==
    Cardinality({i \in 1..Len(rl_log) :
                    rl_log[i][1] = c /\ rl_log[i][2] > now - WINDOW_SECONDS})

\* C18: a call of is_allowed is accepted exactly when fewer than
\* requests_per_minute calls of the same client were accepted in the 60
\* seconds before it; a rejected call is not recorded.
C18_SlidingWindow ==
    [][rl_now' = rl_now =>
          /\ rl_allowed' <=> (AcceptedInWindow(rl_client', rl_now) < requests_per_minute)
          /\ ~rl_allowed' => rl_log' = rl_log]_vars

\* C18 witness: with a limit of three, three calls of 1.2.3.4 and one of
\* 5.6.7.8 in between were accepted and the fourth call of 1.2.3.4 is rejected
C18_Witness ==
    /\ requests_per_minute = 3 /\ rl_client = "1.2.3.4" /\ ~rl_allowed
    /\ Len(rl_log) = 4
    /\ rl_log[1][1] = "1.2.3.4" /\ rl_log[2][1] = "5.6.7.8"
    /\ AcceptedInWindow("1.2.3.4", rl_now) = 3

\* the outcomes the claim calls a failure
PolishFailed(r) ==
    \/ r.kind = "timeout"
    \/ r.kind = "http" /\ (r.status < 200 \/ r.status > 299)
    \/ r.kind = "http" /\ r.body # "content"

\* C19: when the polish call times out, answers with a status outside 2xx or
\* with a malformed body, the text after the polish stage is the text before it.
C19_PolishNoOp ==
    (p_pc = "return" /\ PolishFailed(p_response)) =>
        p_polished_text = p_text

\* C19 witness: a status 500 response that carries a content, on a text with words
C19_Witness ==
    /\ p_pc = "return" /\ p_response.kind = "http" /\ p_response.status = 500
    /\ p_response.body = "content" /\ p_response.content = <<"b">>
    /\ split(p_text) # <<>> /\ p_polished_text = p_text

\* C20: every entry of the stored dictionary passes validate_dictionary_entry.
C20_StoredValid ==
    \A m \in DOMAIN personal_dictionary :
        validate_dictionary_entry(m, personal_dictionary[m])

\* the counter of the word the current transcription has at position i
Counter(wc, words, i) == Get(wc, <<i, lower(words[i + 1])>>)

\* C21: in a pass the words appended to the confirmed text are the words of the
\* current transcription at the contiguous positions boundary..boundary+k-1,
\* every one of them at the threshold, and the walk stops at the first position
\* whose counter is below the threshold: no word behind such a position is
\* appended in that pass.
C21_NoGapBridging ==
    [][(op' = "transcribe_current" /\ outcome' = "ok") =>
          LET words == split(last_transcription')
              old == split(confirmed_text)
              new == split(confirmed_text')
          IN /\ Len(new) = Len(old) + (confirmed_word_count' - confirmed_word_count)
             /\ \A j \in confirmed_word_count..(confirmed_word_count' - 1) :
                   /\ j < Len(words)
                   /\ new[Len(old) + (j - confirmed_word_count) + 1] = words[j + 1]
                   /\ \A i \in confirmed_word_count..j :
                         Counter(word_counts', words, i) >= min_word_count
             /\ \A j \in confirmed_word_count..(Len(words) - 1) :
                   Counter(word_counts', words, j) < min_word_count =>
                       confirmed_word_count' <= j]_vars

\* C21 witness: the word behind the boundary word has reached the threshold
\* while the boundary word has not, and nothing was confirmed
C21_Witness ==
    /\ op = "transcribe_current" /\ outcome = "ok"
    /\ confirmed_word_count = 0
    /\ Len(split(last_transcription)) = 2
    /\ Counter(word_counts, split(last_transcription), 0) < min_word_count
    /\ Counter(word_counts, split(last_transcription), 1) >= min_word_count
    /\ confirmed_text = <<>>

\* C22: word_counts holds no counter for a position below confirmed_word_count:
\* the counters of a position are discarded when the position is confirmed.
C22_CountersBeyondBoundary ==
    \A key \in DOMAIN word_counts : key[1] >= confirmed_word_count

\* C23: a pass whose ASR call errors, directly after another pass, returns the
\* partial and confirmed texts the previous pass returned and leaves
\* confirmed_text, confirmed_word_count and word_counts unchanged.
C23_ErrorReturnsLastPair ==
    [][(op = "transcribe_current" /\ op' = "transcribe_current"
            /\ outcome' = "error") =>
          /\ ret_partial' = ret_partial
          /\ ret_confirmed' = ret_confirmed
          /\ UNCHANGED <<confirmed_text, confirmed_word_count, word_counts>>]_vars

\* the merge, in order, of the texts of the windows 1..i the engine transcribed
RECURSIVE MergeOfSucceeded(_)
MergeOfSucceeded(i) ==
    IF i = 0 THEN <<>>
    ELSE IF f_engine[i] = "text"
         THEN merge_text(MergeOfSucceeded(i - 1), WindowText(i), 5)
         ELSE MergeOfSucceeded(i - 1)

\* C24: when the engine fails on windows of a chunked transcription, the text
\* returned by get_final_transcription and by _transcribe_chunked is the merge
\* of the transcriptions of the windows that succeeded, in order.
C24_WindowFailureTolerated ==
    f_pc = "return" => f_merged_text = MergeOfSucceeded(Len(f_windows))

\* the mode the selection rule names for an auth message: the mode with the
\* explicit id, otherwise the first mode whose auto-switch list matches the
\* app name, and the default mode whenever neither yields a mode
ExplicitMode(mode_id) ==
    IF mode_id # 0 THEN FirstRow({i \in Rows : ModeTable[i].id = mode_id}) ELSE NoMode
AutoSwitchMode(app_name) ==
    FirstRow({i \in Rows : \E a \in ModeTable[i].auto_switch_apps :
                              <<app_name, a>> \in FindIn})
DefaultMode == FirstRow({i \in Rows : ModeTable[i].is_default})
RuleMode(mode_id, app_name) ==
    IF ExplicitMode(mode_id) # NoMode THEN ExplicitMode(mode_id)
    ELSE IF mode_id = 0 /\ AutoSwitchMode(app_name) # NoMode THEN AutoSwitchMode(app_name)
    ELSE DefaultMode

\* C25: the mode a session holds after a valid auth message is the mode the
\* selection rule names for some auth message (explicit id, else first
\* auto-switch match, else the default mode); it stays fixed while the session
\* runs and is the mode named in the final payload.
C25_ModeSelection ==
    /\ [][(variant = "mac" /\ s_pc = "accepted" /\ auth_result' = "valid") =>
             \E mode_id \in ModeIds, app_name \in AppNames :
                 mode' = RuleMode(mode_id, app_name)]_vars
    /\ [][s_pc = "streaming" => mode' = mode]_vars
    /\ [](variant = "mac" =>
             \A i \in 1..Len(sent) :
                 MsgType(sent[i]) = "final" => sent[i].mode = mode.name)

\* the stages of the pipeline in the order the specification gives them
PipelineOrder == <<"cleanup", "dictionary", "snippets", "ai_polish">>
Enabled(m, stage) ==
    \/ stage = "cleanup" /\ m.use_cleanup
    \/ stage = "dictionary" /\ m.use_dictionary
    \/ stage = "snippets" /\ m.use_snippets
    \/ stage = "ai_polish" /\ m.use_ai_polish
FinalsSent == {i \in 1..Len(sent) : MsgType(sent[i]) = "final" /\ sent[i].raw # <<>>}

\* C26: the text of a final payload with non-empty raw text is the raw text
\* with the stages applied in the order cleanup, dictionary, snippets, AI
\* polish: every one of the first three stages the mode enables is applied,
\* no stage the mode disables is applied, AI polish only comes last; with no
\* mode the first three stages are applied and AI polish is not.
C26_PipelineOrder ==
    \A i \in FinalsSent :
        LET applied == sent[i].text.applied
            three == SelectSeq(applied, LAMBDA st : st # "ai_polish")
        IN /\ sent[i].text.raw = sent[i].raw
           /\ three = SelectSeq(SubSeq(PipelineOrder, 1, 3),
                                LAMBDA st : Enabled(mode, st))
           /\ applied \in {three, Append(three, "ai_polish")}
           /\ applied # three => Enabled(mode, "ai_polish")
           /\ mode = NoMode => applied = SubSeq(PipelineOrder, 1, 3)

\* C26 witness: final payloads of a mode with all four stages applied
C26_Witness ==
    /\ s_pc = "closed" /\ variant = "mac" /\ mode.name = "email"
    /\ \E i \in FinalsSent : sent[i].text.applied = PipelineOrder

\* C27: the audio a transcribe_current pass hands to model.transcribe is at most
\* ENGINE_MAX_SECONDS long, whatever has been appended to the buffer.
C27_EngineLimit ==
    [][(op' = "transcribe_current" /\ outcome' # "short") =>
          Len(accumulated_audio) <= ENGINE_MAX_SECONDS * sample_rate]_vars

\* C28: when the handler of a session has terminated, on any path (final
\* payload sent, client gone, exception, model not loaded), the session id is
\* no longer in active_sessions.
C28_RegistryCleanup ==
    s_pc \in {"closed", "disconnected"} => active_sessions = {}

\* the timestamps recorded for client c
Recorded(reqs, c) == IF c \in DOMAIN reqs THEN reqs[c] ELSE <<>>
InWindow(times, now) ==
    Cardinality({i \in 1..Len(times) : times[i] > now - WINDOW_SECONDS})

\* C29: a rejected call of is_allowed records nothing for its client; a client
\* never has more than requests_per_minute timestamps recorded; a call of a
\* client at its limit whose oldest recorded call is 60 seconds old or older is
\* accepted; the outcome of a call depends only on the client's own recorded
\* calls of the last 60 seconds, and a client whose record is removed had no
\* call in the last 60 seconds.
C29_CallStep ==
    [][rl_now' = rl_now =>
          LET c == rl_client'
              old == Recorded(requests, c)
              new == Recorded(requests', c)
          IN /\ ~rl_allowed' =>
                   /\ Len(new) = InWindow(old, rl_now)
                   /\ \A i \in 1..Len(new) : \E j \in 1..Len(old) : new[i] = old[j]
             /\ rl_allowed' => Len(new) = InWindow(old, rl_now) + 1
             /\ (Len(old) >= requests_per_minute /\ old[1] <= rl_now - WINDOW_SECONDS)
                   => rl_allowed'
             /\ rl_allowed' <=> (InWindow(old, rl_now) < requests_per_minute)
             /\ \A ip \in DOMAIN requests \ DOMAIN requests' :
                   InWindow(requests[ip], rl_now) = 0]_vars

C29_RejectedNotRecorded ==
    /\ [](\A c \in DOMAIN requests : Len(requests[c]) <= requests_per_minute)
    /\ C29_CallStep

\* C29 witness: a client at its limit, with calls recorded at two different
\* times, has just been rejected
C29_Witness ==
    /\ ~rl_allowed /\ rl_client \in DOMAIN requests
    /\ Len(requests[rl_client]) = requests_per_minute
    /\ requests[rl_client][1] < rl_now
    /\ requests[rl_client][1] < requests[rl_client][Len(requests[rl_client])]

\* C30: confirmed_word_count is the number of words of confirmed_text in every
\* state, and in the state a reset leaves, the confirmed text, the boundary,
\* the counters, the audio buffer and the last transcription are all empty,
\* as on a freshly created reconciler.
C30_BoundaryConsistent ==
    /\ confirmed_word_count = Len(split(confirmed_text))
    /\ op = "reset" =>
          /\ confirmed_text = <<>> /\ confirmed_word_count = 0
          /\ word_counts = EmptyDict
          /\ accumulated_audio = <<>> /\ last_transcription = <<>>

\* C30 witness: a reset after a pass that had returned confirmed words
C30_Witness ==
    /\ op = "reset" /\ passes >= 1
    /\ Len(split(ret_confirmed)) >= 2
    /\ confirmed_text = <<>> /\ confirmed_word_count = 0

====
